---------------------------- MODULE Spec2Model ----------------------------
(***************************************************************************)
(* A model of the factorization core of factor_benchmark.py:               *)
(*   trial_division_python(n)   (lines 20-35)                              *)
(*   pollards_rho(n)            (lines 56-96)                              *)
(* Each function is a small-step state machine over its local variables.   *)
(* pollards_rho is modelled per call (a call has its own frame of locals), *)
(* and draws its random numbers from the module-level generator of the     *)
(* `random` module, which is one object for the whole process.             *)
(***************************************************************************)
EXTENDS Integers, FiniteSets, Sequences, TLC

\* Largest argument given to trial_division_python.
MaxTdN == 1000
\* Largest argument given to a single call of pollards_rho.
MaxRhoN == 35
\* Largest argument given to each of two interleaved calls of pollards_rho.
MaxConcN == 7
\* Largest argument given to the call of pollards_rho whose termination is checked.
MaxLiveN == 25

\* The calls of pollards_rho that may be in progress.
Calls == {1, 2}

VARIABLES
    td_n,      \* trial_division_python: the argument n
    td_i,      \* trial_division_python: the candidate i
    td_pc,     \* trial_division_python: "idle", "start", "loop", "done"
    td_ret,    \* trial_division_python: the returned value (0 before the return)
    n,         \* pollards_rho, per call: the argument n
    x,         \* pollards_rho, per call: the tortoise
    y,         \* pollards_rho, per call: the hare
    c,         \* pollards_rho, per call: the recurrence constant
    g,         \* pollards_rho, per call: the gcd
    attempt,   \* pollards_rho, per call: iterations of the for loop started
    collapses, \* pollards_rho, per call: iterations left through `break` (g == n)
    pc,        \* pollards_rho, per call: "idle", "start", "for", "while", "done"
    ret,       \* pollards_rho, per call: the returned value (0 before the return)
    rng        \* random module: how many numbers have been drawn from its generator;
               \* random.randint is a method of one hidden Random instance that the
               \* whole process shares, and every draw advances that instance

vars == <<td_n, td_i, td_pc, td_ret, n, x, y, c, g, attempt, collapses, pc, ret, rng>>
tdVars == <<td_n, td_i, td_pc, td_ret>>
rhoVars == <<n, x, y, c, g, attempt, collapses, pc, ret, rng>>

---------------------------------------------------------------------------
\* Arithmetic used by the algorithms.

\* abs(a)
Abs(a) == IF a < 0 THEN -a ELSE a

\* A bug: g = abs(x - y), the gcd with n left out.
GcdLeftOut(a, b) == IF a = 0 THEN b ELSE a

\* math.gcd(a, b) for a, b >= 0: Euclid's algorithm; gcd(0, b) = b.
RECURSIVE Gcd(_, _)
Gcd(a, b) == IF b = 0 THEN a ELSE Gcd(b, a % b)

\* pow(b, 2, m): the square of b reduced modulo m.
Pow2Mod(b, m) == (b * b) % m

\* One step of the recurrence: (pow(v, 2, m) + k) % m.
RhoStep(v, k, m) == (Pow2Mod(v, m) + k) % m

\* A bug: the tortoise's update is lost, x stays where it was.
TortoiseStuck(v, k, m) == v

\* The tortoise after one loop iteration (line 81).
Tortoise(v, k, m) == RhoStep(v, k, m)

\* The hare after one loop iteration (lines 84-85).
Hare(v, k, m) == RhoStep(RhoStep(v, k, m), k, m)

\* random.randint(a, b): any integer of a..b.
RandInt(a, b) == a .. b

\* A bug: one retry too many.
max_retries_plus_one == 5 + 1

\* A bug: one retry too few.
max_retries_minus_one == 5 - 1

\* max_retries = 5
max_retries == 5

\* A bug: the two fast paths in the other order.
FastPathSwapped(m) == IF m % 3 = 0 THEN 3 ELSE IF m % 2 = 0 THEN 2 ELSE 0

\* A bug: the test for 3 left out.
FastPathNoThree(m) == IF m % 2 = 0 THEN 2 ELSE 0

\* `if n % 2 == 0: return 2` then `if n % 3 == 0: return 3`: the value returned
\* before the for loop, or 0 when the for loop is entered.
FastPath(m) == IF m % 2 = 0 THEN 2 ELSE IF m % 3 = 0 THEN 3 ELSE 0

\* A bug: the `g == n` test left out, so that `g > 1` returns n at once.
CollapsedNever(gv, m) == FALSE

\* `if g == n`: the attempt is left through `break`.
Collapsed(gv, m) == gv = m

\* `if g > 1`: g is returned.
FactorFound(gv) == gv > 1

\* A bug: `while i * i < n`.
TdContinueStrict(i, m) == i * i < m

\* `while i * i <= n`
TdContinue(i, m) == i * i <= m

\* A bug: the increment left out.
TdNoIncrement(i) == i

\* `i += 2`
TdNextCandidate(i) == i + 2

---------------------------------------------------------------------------
\* trial_division_python

\* Line 29-30: the even test, then i = 3.
TdEntry ==
    /\ td_pc = "start"
    /\ IF td_n % 2 = 0
       THEN /\ td_ret' = 2
            /\ td_pc' = "done"
            /\ td_i' = td_i
       ELSE /\ td_i' = 3
            /\ td_pc' = "loop"
            /\ td_ret' = td_ret
    /\ UNCHANGED <<td_n, rhoVars>>

\* Lines 31-35: one evaluation of the while condition and, when it holds, the body.
TdLoop ==
    /\ td_pc = "loop"
    /\ IF TdContinue(td_i, td_n)
       THEN IF td_n % td_i = 0
            THEN /\ td_ret' = td_i
                 /\ td_pc' = "done"
                 /\ td_i' = td_i
            ELSE /\ td_i' = TdNextCandidate(td_i)
                 /\ UNCHANGED <<td_pc, td_ret>>
       ELSE /\ td_ret' = td_n
            /\ td_pc' = "done"
            /\ td_i' = td_i
    /\ UNCHANGED <<td_n, rhoVars>>

---------------------------------------------------------------------------
\* pollards_rho, call p

\* Lines 66-67: the two fast paths, then the for loop is entered.
RhoEntry(p) ==
    /\ pc[p] = "start"
    /\ IF FastPath(n[p]) # 0
       THEN /\ ret' = [ret EXCEPT ![p] = FastPath(n[p])]
            /\ pc' = [pc EXCEPT ![p] = "done"]
       ELSE /\ pc' = [pc EXCEPT ![p] = "for"]
            /\ ret' = ret
    /\ UNCHANGED <<n, x, y, c, g, attempt, collapses, rng, tdVars>>

\* Lines 73-77: the for loop has an iteration left; x, c are drawn, y = x, g = 1.
RhoInit(p) ==
    /\ pc[p] = "for"
    /\ attempt[p] < max_retries
    /\ \E x0 \in RandInt(2, n[p] - 1), c0 \in RandInt(1, n[p] - 1) :
          /\ x' = [x EXCEPT ![p] = x0]
          /\ y' = [y EXCEPT ![p] = x0]
          /\ c' = [c EXCEPT ![p] = c0]
    /\ g' = [g EXCEPT ![p] = 1]
    /\ attempt' = [attempt EXCEPT ![p] = attempt[p] + 1]
    /\ rng' = rng + 2
    /\ pc' = [pc EXCEPT ![p] = "while"]
    /\ UNCHANGED <<n, collapses, ret, tdVars>>

\* Lines 79-94: one evaluation of `while g == 1` and, when it holds, the body.
RhoIter(p) ==
    /\ pc[p] = "while"
    /\ IF g[p] = 1
       THEN LET x1 == Tortoise(x[p], c[p], n[p])
                y1 == Hare(y[p], c[p], n[p])
                g1 == Gcd(Abs(x1 - y1), n[p])
            IN  /\ x' = [x EXCEPT ![p] = x1]
                /\ y' = [y EXCEPT ![p] = y1]
                /\ g' = [g EXCEPT ![p] = g1]
                /\ IF Collapsed(g1, n[p])
                   THEN /\ pc' = [pc EXCEPT ![p] = "for"]
                        /\ collapses' = [collapses EXCEPT ![p] = collapses[p] + 1]
                        /\ ret' = ret
                   ELSE IF FactorFound(g1)
                        THEN /\ ret' = [ret EXCEPT ![p] = g1]
                             /\ pc' = [pc EXCEPT ![p] = "done"]
                             /\ collapses' = collapses
                        ELSE UNCHANGED <<pc, ret, collapses>>
       ELSE /\ pc' = [pc EXCEPT ![p] = "for"]
            /\ UNCHANGED <<x, y, g, ret, collapses>>
    /\ UNCHANGED <<n, c, attempt, rng, tdVars>>

\* Line 96: the for loop is exhausted; n is returned.
RhoExhausted(p) ==
    /\ pc[p] = "for"
    /\ attempt[p] >= max_retries
    /\ ret' = [ret EXCEPT ![p] = n[p]]
    /\ pc' = [pc EXCEPT ![p] = "done"]
    /\ UNCHANGED <<n, x, y, c, g, attempt, collapses, rng, tdVars>>

\* Any step of call p.
RhoCall(p) == RhoEntry(p) \/ RhoInit(p) \/ RhoIter(p) \/ RhoExhausted(p)

---------------------------------------------------------------------------
\* Specifications

Zero == [p \in Calls |-> 0]

RhoIdle ==
    /\ n = Zero /\ x = Zero /\ y = Zero /\ c = Zero /\ g = Zero
    /\ attempt = Zero /\ collapses = Zero /\ ret = Zero /\ rng = 0
    /\ pc = [p \in Calls |-> "idle"]

\* The benchmark's measurement of one n (lines 139-152): trial_division_python(n)
\* is called, and after it has returned, pollards_rho(n).
Init ==
    /\ td_n \in 2 .. MaxTdN
    /\ td_i = 0 /\ td_ret = 0 /\ td_pc = "start"
    /\ RhoIdle

\* Line 151: pollards_rho(n) is called on the n trial division has finished with.
CallRho ==
    /\ td_pc = "done"
    /\ pc[1] = "idle"
    /\ td_n <= MaxRhoN
    /\ n' = [n EXCEPT ![1] = td_n]
    /\ pc' = [pc EXCEPT ![1] = "start"]
    /\ UNCHANGED <<x, y, c, g, attempt, collapses, ret, rng, tdVars>>

Next ==
    \/ TdEntry
    \/ TdLoop
    \/ CallRho
    \/ \E p \in Calls : RhoEntry(p)
    \/ \E p \in Calls : RhoInit(p)
    \/ \E p \in Calls : RhoIter(p)
    \/ \E p \in Calls : RhoExhausted(p)

Spec == Init /\ [][Next]_vars

\* trial_division_python alone, under the scheduling the interpreter gives it: a
\* call that has not returned keeps executing.
NextTd ==
    \/ TdEntry
    \/ TdLoop

FairTd == Init /\ [][NextTd]_vars /\ WF_vars(NextTd)

\* The steps of the calls of pollards_rho.
NextRho ==
    \/ \E p \in Calls : RhoEntry(p)
    \/ \E p \in Calls : RhoInit(p)
    \/ \E p \in Calls : RhoIter(p)
    \/ \E p \in Calls : RhoExhausted(p)

\* One call of pollards_rho(n), 2 <= n <= MaxLiveN, which keeps executing until
\* it has returned.
InitRhoOnly ==
    /\ td_n = 0 /\ td_i = 0 /\ td_ret = 0 /\ td_pc = "idle"
    /\ \E m \in 2 .. MaxLiveN : n = [p \in Calls |-> IF p = 1 THEN m ELSE 0]
    /\ x = Zero /\ y = Zero /\ c = Zero /\ g = Zero
    /\ attempt = Zero /\ collapses = Zero /\ ret = Zero /\ rng = 0
    /\ pc = [p \in Calls |-> IF p = 1 THEN "start" ELSE "idle"]

FairRho == InitRhoOnly /\ [][NextRho]_vars /\ WF_vars(NextRho)

\* Two calls of pollards_rho(n), 2 <= n <= MaxConcN, in progress at once (two
\* threads of one process), their steps interleaved.
InitConc ==
    /\ td_n = 0 /\ td_i = 0 /\ td_ret = 0 /\ td_pc = "idle"
    /\ n \in [Calls -> 2 .. MaxConcN]
    /\ x = Zero /\ y = Zero /\ c = Zero /\ g = Zero
    /\ attempt = Zero /\ collapses = Zero /\ ret = Zero /\ rng = 0
    /\ pc = [p \in Calls |-> "start"]

SpecConc == InitConc /\ [][NextRho]_vars

---------------------------------------------------------------------------
\* Vocabulary of the properties

\* The retry budget the specification names (max_retries in the code).
RetryBudget == 5

Divides(d, m) == d > 0 /\ m % d = 0

IsPrime(m) == m >= 2 /\ \A d \in 2 .. (m - 1) : m % d # 0

\* The least divisor of m (m >= 2) that is greater than 1.
LeastDivisor(m) ==
    CHOOSE d \in 2 .. m : m % d = 0 /\ \A e \in 2 .. (d - 1) : m % e # 0

\* m is composite, odd and not divisible by 3: pollards_rho(m) enters its search.
SearchedComposite(m) == m >= 2 /\ ~IsPrime(m) /\ m % 2 # 0 /\ m % 3 # 0

---------------------------------------------------------------------------
\* C1: whatever pollards_rho(n) returns divides n, and a returned value other
\* than n is a nontrivial divisor: 1 < d < n and n mod d = 0.
C1_RhoDivisorValid ==
    \A p \in Calls :
        pc[p] = "done" =>
            /\ Divides(ret[p], n[p])
            /\ (ret[p] # n[p] => 1 < ret[p] /\ ret[p] < n[p])

\* A call that found a nontrivial divisor in the loop, after a retry.
C1_Witness ==
    \E p \in Calls :
        /\ pc[p] = "done" /\ attempt[p] >= 2
        /\ ret[p] # n[p] /\ ret[p] = g[p]

\* C2: trial_division_python(n) terminates, its candidate i strictly increasing
\* while the loop runs, and returns d with 1 < d <= n and n mod d = 0.
C2_TdTerminatesValid ==
    /\ (td_pc = "start") ~> (td_pc = "done")
    /\ [][(td_pc = "loop" /\ td_pc' = "loop") => td_i' > td_i]_vars
    /\ [](td_pc = "done" => 1 < td_ret /\ td_ret <= td_n /\ Divides(td_ret, td_n))

\* Trial division of a prime above 900 has run its loop to the end.
C2_Witness ==
    td_pc = "done" /\ td_n > 900 /\ td_ret = td_n /\ td_i * td_i > td_n

\* C3: trial_division_python(n) returns the least divisor of n greater than 1,
\* hence n itself exactly when n is prime; 15 -> 3, 91 -> 7, 997 -> 997.
C3_TdLeastDivisor ==
    td_pc = "done" =>
        /\ td_ret = LeastDivisor(td_n)
        /\ (td_ret = td_n <=> IsPrime(td_n))
        /\ (td_n = 15 => td_ret = 3)
        /\ (td_n = 91 => td_ret = 7)
        /\ (td_n = 997 => td_ret = 997)

\* Trial division of 91 has returned 7.
C3_Witness == td_pc = "done" /\ td_n = 91 /\ td_ret = 7

\* C4: for a prime p, pollards_rho(p) returns p and nothing else; for p > 3 it
\* returns only after all 5 attempts have each ended with g = p.
C4_PrimeReturnsItself ==
    \A p \in Calls :
        IsPrime(n[p]) =>
            /\ ret[p] \in {0, n[p]}
            /\ (pc[p] = "done" =>
                    /\ ret[p] = n[p]
                    /\ (n[p] > 3 =>
                            /\ attempt[p] = RetryBudget
                            /\ collapses[p] = RetryBudget
                            /\ g[p] = n[p]))

\* pollards_rho of a prime above 3 has returned.
C4_Witness ==
    \E p \in Calls : pc[p] = "done" /\ IsPrime(n[p]) /\ n[p] > 3 /\ ret[p] = n[p]

\* C5: at most RetryBudget attempts are started in a call; an attempt after the
\* first is started only when the one before it ended with g = n; and after the
\* last attempt ends with g = n the call returns n without starting another.
C5_RetryBudget ==
    [][\A p \in Calls :
          /\ attempt'[p] <= RetryBudget
          /\ (attempt'[p] # attempt[p] =>
                 /\ attempt'[p] = attempt[p] + 1
                 /\ (attempt[p] >= 1 =>
                        g[p] = n[p] /\ collapses[p] = attempt[p]))
          /\ (pc[p] = "for" /\ attempt[p] = RetryBudget /\ pc'[p] # pc[p] =>
                 /\ pc'[p] = "done" /\ ret'[p] = n[p]
                 /\ attempt'[p] = attempt[p] /\ rng' = rng)]_vars

\* The fifth attempt has ended with g = n and the call has returned n.
C5_Witness ==
    \E p \in Calls :
        /\ pc[p] = "done" /\ attempt[p] = RetryBudget
        /\ collapses[p] = RetryBudget /\ ret[p] = n[p]

\* C6: for even n > 2, trial_division_python(n) and pollards_rho(n) both return
\* 2, and pollards_rho draws nothing and starts no attempt (also when 3 | n).
C6_EvenFastPath ==
    /\ (td_pc = "done" /\ td_n > 2 /\ td_n % 2 = 0 => td_ret = 2)
    /\ \A p \in Calls :
          (n[p] > 2 /\ n[p] % 2 = 0) =>
              /\ pc[p] \in {"start", "done"}
              /\ attempt[p] = 0 /\ rng = 0
              /\ (pc[p] = "done" => ret[p] = 2)

\* Both functions have returned 2 for n = 6.
C6_Witness ==
    /\ td_pc = "done" /\ td_n = 6 /\ td_ret = 2
    /\ pc[1] = "done" /\ n[1] = 6 /\ ret[1] = 2

\* C7: for odd n divisible by 3, pollards_rho(n) returns 3, drawing nothing and
\* starting no attempt.
C7_ThreeFastPath ==
    \A p \in Calls :
        (n[p] >= 2 /\ n[p] % 3 = 0 /\ n[p] % 2 # 0) =>
            /\ pc[p] \in {"start", "done"}
            /\ attempt[p] = 0 /\ rng = 0
            /\ (pc[p] = "done" => ret[p] = 3)

\* pollards_rho(15) has returned 3.
C7_Witness == pc[1] = "done" /\ n[1] = 15 /\ ret[1] = 3 /\ attempt[1] = 0

\* C8: when two calls of pollards_rho are interleaved, a step of one call
\* changes nothing the other call uses: not its x, y, c, g or attempt counter,
\* and not the source of its random draws.
C8_NoSharedResource ==
    [][\A p \in Calls :
          (\E q \in Calls \ {p} : RhoCall(q)) =>
              UNCHANGED <<x[p], y[p], c[p], g[p], attempt[p], rng>>]_vars

\* The part of C8 the code keeps: the locals of a call are its own.
C8_LocalsPrivate ==
    [][\A p \in Calls :
          (\E q \in Calls \ {p} : RhoCall(q)) =>
              UNCHANGED <<n[p], x[p], y[p], c[p], g[p], attempt[p], pc[p], ret[p]>>]_vars

\* The part of C8 the code keeps: a retry starts from the fresh draws, y = x, g = 1.
C8_RetryFresh ==
    [][\A p \in Calls :
          (pc[p] = "for" /\ pc'[p] = "while") =>
              /\ x'[p] \in RandInt(2, n[p] - 1) /\ y'[p] = x'[p]
              /\ c'[p] \in RandInt(1, n[p] - 1) /\ g'[p] = 1]_vars

\* C9: pollards_rho(n) terminates: every attempt's while loop is left, and the
\* call returns.
C9_RhoTerminates ==
    /\ (pc[1] = "start") ~> (pc[1] = "done")
    /\ (pc[1] = "while") ~> (pc[1] # "while")

\* A call that has returned a factor of 25 found in the loop of a retry.
C9_Witness ==
    /\ pc[1] = "done" /\ n[1] = 25 /\ collapses[1] >= 1
    /\ ret[1] = 5 /\ ret[1] = g[1]

\* C10: n returned by pollards_rho(n) does not prove n prime: a composite n
\* (odd, not divisible by 3) is returned as n, and then only as EXHAUSTED, each
\* of the 5 attempts having left its loop with g = n.
C10_ExhaustedComposite ==
    \A p \in Calls :
        (pc[p] = "done" /\ SearchedComposite(n[p]) /\ ret[p] = n[p]) =>
            /\ attempt[p] = RetryBudget
            /\ collapses[p] = RetryBudget
            /\ g[p] = n[p]

\* pollards_rho has returned n for a composite n it searched.
C10_Witness ==
    \E p \in Calls :
        /\ pc[p] = "done" /\ SearchedComposite(n[p]) /\ ret[p] = n[p]
        /\ attempt[p] = RetryBudget

=============================================================================
